---- MODULE Spec2Model ----
(***************************************************************************)
(* A model of run.py of deep-sudep-detection: the weighted example dataset *)
(* (OnsetDataset), the anti-aliased downsampler (BlurPool1d), the residual *)
(* block (ResnetBlock), the network forward pass (OnsetModule.forward) and *)
(* the evaluation accumulators of OnsetModule.                             *)
(*                                                                         *)
(* Floating point values are modelled as exact rationals <<num, den>> with *)
(* den > 0.  Tensors are modelled by their shapes, label arrays by their   *)
(* shape and their row-major data, as numpy stores them.                   *)
(*                                                                         *)
(* Each component has a specification of its own (SpecDataset, SpecBlur,   *)
(* SpecBlock, SpecNet, SpecEval); the variables of the other components    *)
(* are held at their idle values.                                          *)
(***************************************************************************)
EXTENDS Integers, Sequences, FiniteSets, TLC

VARIABLES
    \* OnsetDataset
    y,          \* self.y: [shape |-> <<...>>, flat |-> row-major int64 data]
    w,          \* self.w: the class weight table, <<>> until computed
    ds_pc,      \* "new" (arrays loaded), "ready" (constructed), "raised"
    ds_err,     \* the exception __init__ raised, "" if none
    ds_branch,  \* the branch of __init__ taken: "", "timestep", "sequence"
    item_out,   \* the last __getitem__ return, <<>> or <<[item, y, w]>>
    \* BlurPool1d
    bp_pc,       \* "new" (arguments chosen), "built", "raised"
    bp_channels, \* self.channels
    bp_ksize,    \* self.blur_kernel_size
    bp_kernel,   \* self.kernel, [channel][1][tap], <<>> until built
    bp_err,      \* the exception __init__ raised, "" if none
    bp_out,      \* the last forward: <<>> or <<[x, out]>>
    \* ResnetBlock
    blk,         \* the block: c_in, c_out, expand, stride, project, training
    blk_x,       \* the input tensor's shape <<B, C, T>>
    blk_out,     \* the last forward: <<>> or <<its result>>
    \* OnsetModule.forward
    net_pc,       \* "start", "blocks", "head", "done", "raised"
    net_in,       \* the input batch's shape <<B, 10, T>>
    net_training, \* self.training
    net_x,        \* the tensor x as forward goes: [ok, shape, err]
    net_p,        \* the drop probabilities handed to the blocks so far
    \* OnsetModule evaluation passes
    ev_pc,        \* "idle", "val", "test" (a pass is running), "aborted"
    test_pred,    \* self._test_pred
    test_true,    \* self._test_true
    acc_kind,     \* what the two accumulators hold: "list" or "array"
    outputs,      \* the step outputs the loop collects for epoch end
    logged,       \* what self.log received since the pass began
    fed,          \* the batches the loop has fed to this pass's steps
    ev_passes,    \* the number of passes begun
    np_has_int    \* whether the numpy of the build still has np.int

ds_vars == <<y, w, ds_pc, ds_err, ds_branch, item_out>>

bp_vars == <<bp_pc, bp_channels, bp_ksize, bp_kernel, bp_err, bp_out>>

blk_vars == <<blk, blk_x, blk_out>>

net_vars == <<net_pc, net_in, net_training, net_x, net_p>>

ev_vars == <<ev_pc, test_pred, test_true, acc_kind, outputs, logged, fed,
             ev_passes, np_has_int>>

vars == <<ds_vars, bp_vars, blk_vars, net_vars, ev_vars>>

\* What each component's actions leave alone.
ds_rest == <<bp_vars, blk_vars, net_vars, ev_vars>>

bp_rest == <<ds_vars, blk_vars, net_vars, ev_vars>>

blk_rest == <<ds_vars, bp_vars, net_vars, ev_vars>>

net_rest == <<ds_vars, bp_vars, blk_vars, ev_vars>>

ev_rest == <<ds_vars, bp_vars, blk_vars, net_vars>>

----------------------------------------------------------------------------
\* Bounds of the model.
MaxN == 3       \* examples in a dataset
MaxT == 11      \* timesteps of a per-timestep label row
MaxChannels == 3    \* channels of a tensor or of a layer
MaxKernelSize == 8  \* blur kernel sizes tried
MaxB == 2       \* batch size of a tensor
MaxLen == 6     \* time length of a tensor
MaxExpand == 2  \* the expand multiplier of a block
MaxSeqLen == 20 \* timesteps of a network input
MaxBatch == 1   \* examples in an evaluation batch
MaxSteps == 2   \* batches in an evaluation pass
MaxPasses == 2  \* evaluation passes in a run

----------------------------------------------------------------------------
\* Exact rational arithmetic standing for the float arithmetic of the code.
Rat(n, d) == <<n, d>>

RatMul(a, b) == <<a[1] * b[1], a[2] * b[2]>>

RECURSIVE Gcd(_, _)
Gcd(a, b) == IF b = 0 THEN a ELSE Gcd(b, a % b)

\* The sum, in lowest terms (a sum of 64ths stays a fraction of 64ths).
RatAdd(a, b) ==
    LET n == a[1] * b[2] + b[1] * a[2]
        d == a[2] * b[2]
        g == Gcd(d, IF n < 0 THEN -n ELSE n)
    IN  <<n \div g, d \div g>>

RatEq(a, b) == a[1] * b[2] = b[1] * a[2]

RatLt(a, b) == a[1] * b[2] < b[1] * a[2]

RatLe(a, b) == a[1] * b[2] <= b[1] * a[2]

RatMin(a, b) == IF RatLe(a, b) THEN a ELSE b

----------------------------------------------------------------------------
\* numpy helpers on label arrays.

\* len(np.where(row == v)[0]): the number of positions of row holding v.
CountEq(row, v) == Cardinality({i \in 1..Len(row) : row[i] = v})

\* np.max(row).
MaxOf(row) == CHOOSE m \in {row[i] : i \in 1..Len(row)} :
                 \A i \in 1..Len(row) : row[i] <= m

\* self.y[item] of a 2-D array (item is 1-based here): row item of the data.
RowOf(arr, item) ==
    LET T == arr.shape[2]
    IN  [j \in 1..T |-> arr.flat[(item - 1) * T + j]]

\* np.max(self.y, axis=-1) of a 2-D array.
MaxLastAxis(arr) == [i \in 1..arr.shape[1] |-> MaxOf(RowOf(arr, i))]

----------------------------------------------------------------------------
\* sklearn.utils.class_weight.compute_class_weight(class_weight="balanced",
\* classes=[0, 1], y=labels) as run.py calls it on a 1-D label vector:
\* a ValueError when y holds a label outside classes or misses a class,
\* else len(y) / (n_classes * bincount(y)) per class.
ClassWeightDropsNClasses(labels) ==
    IF \E i \in 1..Len(labels) : labels[i] \notin {0, 1}
    THEN [ok |-> FALSE, w |-> <<>>]
    ELSE IF \E c \in {0, 1} : CountEq(labels, c) = 0
    THEN [ok |-> FALSE, w |-> <<>>]
    ELSE [ok |-> TRUE,
          w  |-> [c \in 1..2 |-> Rat(Len(labels), CountEq(labels, c - 1))]]

compute_class_weight(labels) ==
    IF \E i \in 1..Len(labels) : labels[i] \notin {0, 1}
    THEN [ok |-> FALSE, w |-> <<>>]
    ELSE IF \E c \in {0, 1} : CountEq(labels, c) = 0
    THEN [ok |-> FALSE, w |-> <<>>]
    ELSE [ok |-> TRUE,
          w  |-> [c \in 1..2 |->
                    Rat(Len(labels), 2 * CountEq(labels, c - 1))]]

----------------------------------------------------------------------------
\* The label arrays a dataset is built from.

\* A per-timestep row with its onset after timestep k: zeros, then ones.
OnsetRow(T, k) == [j \in 1..T |-> IF j > k THEN 1 ELSE 0]

\* rows, concatenated row-major.
RECURSIVE Flatten(_)
Flatten(rows) ==
    IF rows = <<>> THEN <<>> ELSE Head(rows) \o Flatten(Tail(rows))

\* [N, T] per-timestep labels with the onsets ks.
Labels2D(N, T, ks) ==
    [shape |-> <<N, T>>,
     flat  |-> Flatten([i \in 1..N |-> OnsetRow(T, ks[i])])]

\* [N] sequence-level labels.
Labels1D(N, f) == [shape |-> <<N>>, flat |-> f]

\* Label arrays that are neither: a 0-D scalar and [N, 1, 1] arrays.
Labels0D(v) == [shape |-> <<>>, flat |-> <<v>>]

Labels3D(N, f) == [shape |-> <<N, 1, 1>>, flat |-> f]

----------------------------------------------------------------------------
\* OnsetDataset.__init__: the class weight table from the reduced labels.
\* An array that is not 2-D takes the else branch; compute_class_weight
\* raises on anything that is not a 1-D vector (a TypeError from set(y) or a
\* ValueError from the label encoder, depending on the sklearn build).
InitBranch(arr) == IF Len(arr.shape) = 2 THEN "timestep" ELSE "sequence"

ReducedLabels(arr) ==
    IF Len(arr.shape) = 2 THEN MaxLastAxis(arr) ELSE arr.flat

OnsetDataset_init ==
    /\ ds_pc = "new"
    /\ ds_branch' = InitBranch(y)
    /\ IF Len(y.shape) \in {1, 2}
       THEN LET r == compute_class_weight(ReducedLabels(y))
            IN  IF r.ok
                THEN /\ w' = r.w
                     /\ ds_pc' = "ready"
                     /\ ds_err' = ""
                ELSE /\ w' = <<>>
                     /\ ds_pc' = "raised"
                     /\ ds_err' = "ValueError"
       ELSE /\ w' = <<>>
            /\ ds_pc' = "raised"
            /\ ds_err' \in {"TypeError", "ValueError"}
    /\ UNCHANGED <<y, item_out>>
    /\ UNCHANGED ds_rest

----------------------------------------------------------------------------
\* OnsetDataset.__getitem__ on a per-timestep row: the label and the weight.
\* pct < 0.1 is decided on the exact fractions: y_pos / T rounds to the
\* double nearest the quotient, which is the literal 0.1 exactly when the
\* quotient is 1/10.
TimestepItemNoCompensation(row, wtab) ==
    LET y_pos == CountEq(row, 1)
        y_neg == Len(row) - y_pos
        lab   == IF y_pos # 0 THEN 1 ELSE 0
        w0    == wtab[lab + 1]
        pct   == RatMin(Rat(y_pos, y_pos + y_neg), Rat(y_neg, y_pos + y_neg))
    IN  IF lab = 1
        THEN [y |-> lab,
              w |-> IF RatLt(pct, Rat(1, 10))
                    THEN RatMul(w0, RatMul(Rat(10, 1), pct))
                    ELSE w0]
        ELSE [y |-> lab, w |-> w0]

TimestepItem(row, wtab) ==
    LET y_pos == CountEq(row, 1)
        y_neg == Len(row) - y_pos
        lab   == IF y_pos # 0 THEN 1 ELSE 0
        w0    == wtab[lab + 1]
        pct_pos == Rat(y_pos, y_pos + y_neg)
        pct_neg == Rat(y_neg, y_pos + y_neg)
        pct   == RatMin(pct_pos, pct_neg)
        w1    == IF RatLt(pct, Rat(1, 10))
                 THEN RatMul(w0, RatMul(Rat(10, 1), pct))
                 ELSE w0
    IN  IF lab = 1
        THEN [y |-> lab, w |-> RatMul(w1, Rat(11, 10))]
        ELSE [y |-> lab, w |-> w0]

\* The sequence-level branch: the label itself and the plain table entry.
SequenceItem(lab, wtab) == [y |-> lab, w |-> wtab[lab + 1]]

\* item is the 0-based index of the code.
OnsetDataset_getitem(item) ==
    /\ ds_pc = "ready"
    /\ LET r == IF Len(y.shape) = 2
                THEN TimestepItem(RowOf(y, item + 1), w)
                ELSE SequenceItem(y.flat[item + 1], w)
       IN  item_out' = <<[item |-> item, y |-> r.y, w |-> r.w]>>
    /\ UNCHANGED <<y, w, ds_pc, ds_err, ds_branch>>
    /\ UNCHANGED ds_rest

\* The idle values of the dataset's variables in the other specifications.
DatasetOff ==
    /\ y = [shape |-> <<>>, flat |-> <<>>]
    /\ w = <<>>
    /\ ds_pc = "off"
    /\ ds_err = ""
    /\ ds_branch = ""
    /\ item_out = <<>>

BlurOff ==
    /\ bp_pc = "off"
    /\ bp_channels = 0
    /\ bp_ksize = 0
    /\ bp_kernel = <<>>
    /\ bp_err = ""
    /\ bp_out = <<>>

BlockOff ==
    /\ blk = <<>>
    /\ blk_x = <<>>
    /\ blk_out = <<>>

NetOff ==
    /\ net_pc = "off"
    /\ net_in = <<>>
    /\ net_training = FALSE
    /\ net_x = <<>>
    /\ net_p = <<>>

EvalOff ==
    /\ ev_pc = "off"
    /\ test_pred = <<>>
    /\ test_true = <<>>
    /\ acc_kind = "list"
    /\ outputs = <<>>
    /\ logged = <<>>
    /\ fed = <<>>
    /\ ev_passes = 0
    /\ np_has_int = TRUE

InitDataset ==
    /\ BlurOff /\ BlockOff /\ NetOff /\ EvalOff
    /\ \/ \E N \in 1..MaxN, T \in 1..MaxT :
            \E ks \in [1..N -> 0..T] : y = Labels2D(N, T, ks)
       \/ \E N \in 1..MaxN :
            \E f \in [1..N -> {0, 1}] : y = Labels1D(N, f)
       \/ \E v \in {0, 1} : y = Labels0D(v)
       \/ \E N \in 1..MaxN :
            \E f \in [1..N -> {0, 1}] : y = Labels3D(N, f)
    /\ w = <<>>
    /\ ds_pc = "new"
    /\ ds_err = ""
    /\ ds_branch = ""
    /\ item_out = <<>>

NextDataset ==
    \/ OnsetDataset_init
    \/ \E item \in 0..(MaxN - 1) :
         /\ Len(y.shape) > 0
         /\ item < y.shape[1]
         /\ OnsetDataset_getitem(item)

SpecDataset == InitDataset /\ [][NextDataset]_vars

----------------------------------------------------------------------------
\* Claims about OnsetDataset, checked under SpecDataset.

\* The reduced label of example i, read off the array itself: 1 when the
\* row (or the sequence label) holds a positive, else 0.
HasPositive(i) ==
    IF Len(y.shape) = 2
    THEN \E j \in 1..y.shape[2] : y.flat[(i - 1) * y.shape[2] + j] = 1
    ELSE y.flat[i] = 1

NumOfClass(c) ==
    Cardinality({i \in 1..y.shape[1] : HasPositive(i) = (c = 1)})

\* C1: every example weight __getitem__ returns is strictly greater than 0,
\* for sequence-level labels and for per-timestep rows with any number of
\* positive timesteps, from none to all T.
C1_WeightPositive ==
    \A k \in 1..Len(item_out) : RatLt(Rat(0, 1), item_out[k].w)

\* C2: for a per-timestep row the label is 1 iff some timestep is positive;
\* a label-0 row gets the class table entry unchanged; a label-1 row whose
\* minority fraction m is below 0.1 gets base * 10m * 1.1, any other
\* label-1 row base * 1.1; 100 timesteps with 5 positive give 0.55 * base.
C2_TimestepWeight ==
    (ds_pc = "ready" /\ Len(y.shape) = 2) =>
        /\ \A k \in 1..Len(item_out) :
             LET r    == item_out[k]
                 T    == y.shape[2]
                 npos == Cardinality({j \in 1..T :
                            y.flat[r.item * T + j] = 1})
                 nmin == IF npos <= T - npos THEN npos ELSE T - npos
                 base == w[r.y + 1]
             IN  /\ r.y = (IF npos > 0 THEN 1 ELSE 0)
                 /\ r.y = 0 => r.w = base
                 /\ (r.y = 1 /\ 10 * nmin < T) =>
                      r.w[1] * base[2] * T * 10
                        = base[1] * (10 * nmin) * 11 * r.w[2]
                 /\ (r.y = 1 /\ 10 * nmin >= T) =>
                      r.w[1] * base[2] * 10 = base[1] * 11 * r.w[2]
        /\ LET r == TimestepItem(OnsetRow(100, 95), w)
           IN  r.y = 1 /\ r.w[1] * w[2][2] * 100 = w[2][1] * 55 * r.w[2]

\* A label-1 row with a non-empty minority under 10% has been fetched, from
\* a dataset whose class weights differ.
C2_Witness ==
    /\ ds_pc = "ready"
    /\ Len(y.shape) = 2
    /\ item_out # <<>>
    /\ item_out[1].y = 1
    /\ ~RatEq(w[1], w[2])
    /\ LET row == RowOf(y, item_out[1].item + 1)
       IN  /\ CountEq(row, 1) > 0
           /\ CountEq(row, 0) > 0
           /\ 10 * CountEq(row, 0) < Len(row)

\* C3: construction computes the two-entry table weight(c) = N / (2 *
\* count(c)) over the reduced labels (row maxima of a 2-D array, the labels
\* of a 1-D one), so N/2 examples of each class give 1.0 and 1.0; fetching
\* items leaves the table as computed.
C3_ClassWeightTable ==
    ds_pc = "ready" =>
        /\ Len(w) = 2
        /\ \A c \in {0, 1} :
             /\ NumOfClass(c) > 0
             /\ w[c + 1][1] * 2 * NumOfClass(c) = y.shape[1] * w[c + 1][2]
        /\ NumOfClass(0) = NumOfClass(1) =>
             RatEq(w[1], Rat(1, 1)) /\ RatEq(w[2], Rat(1, 1))

\* A 2-D dataset of three rows, two of them with positives and one of those
\* mixed, has been constructed and an item fetched from it.
C3_Witness ==
    /\ ds_pc = "ready"
    /\ Len(y.shape) = 2
    /\ y.shape[1] = 3
    /\ NumOfClass(1) = 2
    /\ \E i \in 1..3 : CountEq(RowOf(y, i), 1) > 0 /\ CountEq(RowOf(y, i), 0) > 0
    /\ item_out # <<>>

\* C8: a label array whose number of dimensions is neither 1 nor 2 is
\* rejected with an InvalidLabelShape error and never goes through the
\* sequence-level branch.
C8_InvalidLabelShape ==
    (ds_pc # "new" /\ Len(y.shape) \notin {1, 2}) =>
        /\ ds_pc = "raised"
        /\ ds_err = "InvalidLabelShape"
        /\ ds_branch # "sequence"

----------------------------------------------------------------------------
\* Tensors, by shape.  A layer applied to a failed tensor passes the failure
\* on (the exception has already left forward).
Tensor(shape) == [ok |-> TRUE, shape |-> shape, err |-> ""]

Raised(err) == [ok |-> FALSE, shape |-> <<>>, err |-> err]

\* F.conv1d / nn.Conv1d on [B, C, T]: the channel count must be c_in and the
\* padded length at least the kernel; the output length is
\* floor((T + 2 * padding - kernel) / stride) + 1.
Conv1d(x, c_in, c_out, kernel, padding, stride) ==
    IF ~x.ok THEN x
    ELSE IF Len(x.shape) # 3 \/ x.shape[2] # c_in
              \/ x.shape[3] + 2 * padding < kernel
    THEN Raised("RuntimeError")
    ELSE Tensor(<<x.shape[1], c_out,
                  (x.shape[3] + 2 * padding - kernel) \div stride + 1>>)

----------------------------------------------------------------------------
\* BlurPool1d.__init__

\* The binomial row of a supported kernel size, <<>> for any other size
\* (the else branch, which raises).
Binomial(size) ==
    CASE size = 3 -> <<1, 2, 1>>
      [] size = 5 -> <<1, 4, 6, 4, 1>>
      [] size = 7 -> <<1, 6, 15, 20, 15, 6, 1>>
      [] OTHER    -> <<>>

\* np.sum of a list of integers.
RECURSIVE NpSum(_)
NpSum(s) == IF s = <<>> THEN 0 ELSE Head(s) + NpSum(Tail(s))

\* np.tile(bk, n): the whole vector, n times over.
NpTile(bk, n) ==
    [j \in 1..(Len(bk) * n) |-> bk[((j - 1) % Len(bk)) + 1]]

\* np.repeat(bk, n): each element n times, in order.
NpRepeat(bk, n) ==
    [j \in 1..(Len(bk) * n) |-> bk[((j - 1) \div n) + 1]]

\* np.reshape(flat, (W, C, 1)), row-major.
Reshape3(flat, W, C) ==
    [i \in 1..W |-> [c \in 1..C |-> <<flat[(i - 1) * C + c]>>]]

\* arr.transpose((1, 2, 0)) of a W x C x 1 array: C x 1 x W.
Transpose120(arr, W, C) ==
    [c \in 1..C |-> <<[i \in 1..W |-> arr[i][c][1]]>>]

\* bk / np.sum(bk), repeated per channel and laid out C x 1 x W.  The sums
\* are 4, 16 and 64, so the float quotients are the exact fractions.
BlurKernel(channels, size) ==
    LET binomial == Binomial(size)
        total    == NpSum(binomial)
        bk       == [i \in 1..Len(binomial) |-> Rat(binomial[i], total)]
    IN  Transpose120(Reshape3(NpRepeat(bk, channels), size, channels),
                     size, channels)

BlurPool1d_init ==
    /\ bp_pc = "new"
    /\ IF bp_ksize \in {3, 5, 7}
       THEN /\ bp_kernel' = BlurKernel(bp_channels, bp_ksize)
            /\ bp_pc' = "built"
            /\ bp_err' = ""
       ELSE /\ bp_kernel' = <<>>
            /\ bp_pc' = "raised"
            /\ bp_err' = "ValueError"
    /\ UNCHANGED <<bp_channels, bp_ksize, bp_out>>
    /\ UNCHANGED bp_rest

\* BlurPool1d.forward: a depthwise conv1d with the fixed kernel, padding
\* int(blur_kernel_size / 2) and stride 2.
BlurPool1dForward(channels, size, x) ==
    LET same == size \div 2
    IN  Conv1d(x, channels, channels, size, same, 2)

BlurPool1d_forward(shape) ==
    /\ bp_pc = "built"
    /\ bp_out' = <<[x   |-> shape,
                    out |-> BlurPool1dForward(bp_channels, bp_ksize,
                                              Tensor(shape))]>>
    /\ UNCHANGED <<bp_pc, bp_channels, bp_ksize, bp_kernel, bp_err>>
    /\ UNCHANGED bp_rest

\* Input tensors <<B, C, T>>.
Shapes == {<<B, C, T>> : B \in 1..MaxB, C \in 1..MaxChannels, T \in 1..MaxLen}

InitBlur ==
    /\ DatasetOff /\ BlockOff /\ NetOff /\ EvalOff
    /\ bp_pc = "new"
    /\ bp_channels \in 1..MaxChannels
    /\ bp_ksize \in 0..MaxKernelSize
    /\ bp_kernel = <<>>
    /\ bp_err = ""
    /\ bp_out = <<>>

NextBlur ==
    \/ BlurPool1d_init
    \/ \E shape \in Shapes : BlurPool1d_forward(shape)

SpecBlur == InitBlur /\ [][NextBlur]_vars

\* Claims about BlurPool1d, checked under SpecBlur.

\* Row size - 1 of Pascal's triangle, written out.
PascalRow(size) ==
    [i \in 1..size |->
        IF size = 3 THEN (IF i = 2 THEN 2 ELSE 1)
        ELSE IF size = 5 THEN (IF i = 3 THEN 6 ELSE IF i \in {2, 4} THEN 4 ELSE 1)
        ELSE (IF i = 4 THEN 20 ELSE IF i \in {3, 5} THEN 15
              ELSE IF i \in {2, 6} THEN 6 ELSE 1)]

\* The sum of a sequence of fractions.
RECURSIVE RatSum(_)
RatSum(s) == IF s = <<>> THEN Rat(0, 1) ELSE RatAdd(Head(s), RatSum(Tail(s)))

\* C4: built with kernel size 3, 5 or 7, every channel of the kernel is the
\* binomial row [1,2,1], [1,4,6,4,1] or [1,6,15,20,15,6,1] over its sum, so
\* each channel's coefficients sum to exactly 1; any other kernel size
\* raises and leaves no downsampler.
C4_BlurKernel ==
    /\ bp_pc = "built" =>
         /\ bp_ksize \in {3, 5, 7}
         /\ Len(bp_kernel) = bp_channels
         /\ \A c \in 1..bp_channels :
              /\ Len(bp_kernel[c]) = 1
              /\ Len(bp_kernel[c][1]) = bp_ksize
              /\ \A i \in 1..bp_ksize :
                   bp_kernel[c][1][i][1] * (2 ^ (bp_ksize - 1))
                     = PascalRow(bp_ksize)[i] * bp_kernel[c][1][i][2]
              /\ RatEq(RatSum(bp_kernel[c][1]), Rat(1, 1))
    /\ bp_pc = "raised" =>
         /\ bp_ksize \notin {3, 5, 7}
         /\ bp_kernel = <<>>
         /\ bp_err = "ValueError"
    /\ (bp_pc # "new" /\ bp_ksize \notin {3, 5, 7}) => bp_pc = "raised"

\* A three-channel downsampler of kernel size 5 has been built and applied.
C4_Witness ==
    /\ bp_pc = "built"
    /\ bp_ksize = 5
    /\ bp_channels = 3
    /\ bp_out # <<>>
    /\ bp_out[1].out.ok

----------------------------------------------------------------------------
\* The layers ResnetBlock is made of, by shape.

\* nn.BatchNorm1d(num_features) on [B, C, T]: C must be num_features, and in
\* training mode the batch statistics need more than one value per channel.
BatchNorm1d(x, num_features, training) ==
    IF ~x.ok THEN x
    ELSE IF x.shape[2] # num_features THEN Raised("RuntimeError")
    ELSE IF training /\ x.shape[1] * x.shape[3] <= 1 THEN Raised("ValueError")
    ELSE x

\* nn.ReLU: elementwise.
ReLU(x) == x

\* The truth value of the argument p of forward: None and 0 are false.
Truthy(p) == p # <<>> /\ p[1][1] # 0

\* drop_connect(inputs, p, training): the assertion on p, the input itself
\* when not training, else the input masked per example and rescaled (the
\* same shape).
drop_connect(x, p, training) ==
    IF ~x.ok THEN x
    ELSE IF ~(RatLe(Rat(0, 1), p) /\ RatLe(p, Rat(1, 1)))
    THEN Raised("AssertionError")
    ELSE x

\* x + x_skip with broadcasting: each pair of sizes equal, or one of them 1.
TensorAdd(a, b) ==
    IF ~a.ok THEN a
    ELSE IF ~b.ok THEN b
    ELSE IF Len(a.shape) # Len(b.shape) THEN Raised("RuntimeError")
    ELSE IF \E i \in 1..Len(a.shape) :
              a.shape[i] # b.shape[i] /\ a.shape[i] # 1 /\ b.shape[i] # 1
    THEN Raised("RuntimeError")
    ELSE Tensor([i \in 1..Len(a.shape) |->
                   IF a.shape[i] >= b.shape[i] THEN a.shape[i]
                   ELSE b.shape[i]])

----------------------------------------------------------------------------
\* ResnetBlock.__init__: the block's configuration; a stride-2 block owns a
\* BlurPool1d(c_in) of the default kernel size.
ResnetBlock(c_in, c_out, expand, stride, project) ==
    [c_in     |-> c_in,
     c_out    |-> c_out,
     expand   |-> expand,
     stride   |-> stride,
     project  |-> project,
     blurpool |-> IF stride = 2 THEN <<[channels |-> c_in, size |-> 3]>>
                  ELSE <<>>]

\* Line 188: forward returns the transformed branch as it is.
ReturnsBranchOnProjectOnly(b) == b.project

ReturnsBranch(b) == b.stride = 2 \/ b.project

\* ResnetBlock.forward(x, p): the output tensor, whether x_skip was added and
\* whether drop_connect was applied to the branch.
ResnetBlockForward(b, x, p, training) ==
    LET x_skip == x
        x1 == ReLU(BatchNorm1d(x, b.c_in, training))
        x2 == IF b.stride = 2
              THEN IF b.blurpool = <<>> THEN Raised("TypeError")
                   ELSE BlurPool1dForward(b.blurpool[1].channels,
                                          b.blurpool[1].size, x1)
              ELSE x1
        x3 == Conv1d(x2, b.c_in, b.expand * b.c_in, 3, 1, 1)
        x4 == ReLU(BatchNorm1d(x3, b.expand * b.c_in, training))
        x5 == Conv1d(x4, b.expand * b.c_in, b.c_out, 3, 1, 1)
        x6 == IF Truthy(p) THEN drop_connect(x5, p[1], training) ELSE x5
    IN  IF ~x5.ok THEN [out |-> x5, skip |-> FALSE, drop |-> FALSE]
        ELSE IF ReturnsBranch(b)
        THEN [out |-> x5, skip |-> FALSE, drop |-> FALSE]
        ELSE IF ~x6.ok THEN [out |-> x6, skip |-> FALSE, drop |-> FALSE]
        ELSE [out  |-> TensorAdd(x6, x_skip),
              skip |-> TensorAdd(x6, x_skip).ok,
              drop |-> Truthy(p) /\ training]

\* The drop probabilities a caller passes: none, or a probability.
DropProbs == {<<>>, <<Rat(0, 1)>>, <<Rat(1, 5)>>, <<Rat(1, 1)>>}

ResnetBlock_forward(p) ==
    /\ blk # <<>>
    /\ blk_out' = <<[p   |-> p,
                     res |-> ResnetBlockForward(blk[1], Tensor(blk_x), p,
                                                blk[1].training)]>>
    /\ UNCHANGED <<blk, blk_x>>
    /\ UNCHANGED blk_rest

\* nn.Module.train() / eval(): flips self.training.
ResnetBlock_train(mode) ==
    /\ blk # <<>>
    /\ blk[1].training # mode
    /\ blk' = <<[blk[1] EXCEPT !.training = mode]>>
    /\ blk_out' = <<>>
    /\ UNCHANGED blk_x
    /\ UNCHANGED blk_rest

InitBlock ==
    /\ DatasetOff /\ BlurOff /\ NetOff /\ EvalOff
    /\ \E c_in \in 1..MaxChannels, c_out \in 1..MaxChannels,
          expand \in 1..MaxExpand, stride \in {1, 2}, project \in BOOLEAN :
         blk = <<[training |-> TRUE]
                 @@ ResnetBlock(c_in, c_out, expand, stride, project)>>
    /\ blk_x \in Shapes
    /\ blk_out = <<>>

NextBlock ==
    \/ \E p \in DropProbs : ResnetBlock_forward(p)
    \/ \E mode \in BOOLEAN : ResnetBlock_train(mode)

SpecBlock == InitBlock /\ [][NextBlock]_vars

\* The time length after the kernel-3, padding-1, stride-2 blur pool.
Halved(T) == (T - 1) \div 2 + 1

\* C5 as stated: for every input [B, C, T] a block with stride 1 and
\* project = False returns the identical shape, the branch plus the input;
\* a block with stride 2 returns the branch only, T halved, no skip.  (Read
\* here in evaluation mode and with C the block's c_in.)
C5_AsStated ==
    \A k \in 1..Len(blk_out) :
        (blk_x[2] = blk[1].c_in /\ ~blk[1].training) =>
            LET r == blk_out[k].res
            IN  /\ (blk[1].stride = 1 /\ ~blk[1].project) =>
                     r.out.ok /\ r.out.shape = blk_x /\ r.skip
                /\ blk[1].stride = 2 =>
                     /\ r.out.ok
                     /\ r.out.shape[3] = Halved(blk_x[3])
                     /\ ~r.skip

\* In training mode every BatchNorm1d of the block needs more than one value
\* per channel; the second one sees the length after the blur pool.
NormsAccept ==
    \/ ~blk[1].training
    \/ blk_x[1] * (IF blk[1].stride = 2 THEN Halved(blk_x[3]) ELSE blk_x[3]) > 1

\* C5, amended: on an input [B, C, T] its batch norms accept, a block with
\* stride 1, project = False and c_in = c_out = C returns the shape
\* [B, C, T], the branch plus the unmodified input; a block with stride 2
\* and c_in = C returns the branch only, of shape [B, c_out, Halved(T)],
\* and never adds the skip connection.
C5_BlockShapes ==
    \A k \in 1..Len(blk_out) :
        (blk_x[2] = blk[1].c_in /\ NormsAccept) =>
            LET r == blk_out[k].res
            IN  /\ (blk[1].stride = 1 /\ ~blk[1].project
                      /\ blk[1].c_in = blk[1].c_out) =>
                     r.out.ok /\ r.out.shape = blk_x /\ r.skip
                /\ blk[1].stride = 2 =>
                     /\ r.out.ok
                     /\ r.out.shape
                          = <<blk_x[1], blk[1].c_out, Halved(blk_x[3])>>
                     /\ ~r.skip
                /\ r.skip => (blk[1].stride # 2 /\ ~blk[1].project)

\* A stride-2 block that changes the channel count has halved an even
\* length of at least 4, in training mode.
C5_Witness ==
    /\ blk_out # <<>>
    /\ blk[1].stride = 2
    /\ blk[1].c_in = blk_x[2]
    /\ blk[1].c_out # blk[1].c_in
    /\ blk[1].training
    /\ blk_x[3] >= 4
    /\ blk_x[3] % 2 = 0
    /\ blk_out[1].res.out.ok
    /\ blk_out[1].res.out.shape[3] * 2 = blk_x[3]

----------------------------------------------------------------------------
\* The hyperparameters and the stage configuration (lines 14-32).
HYPER_D == 16

OPT_BATCH_SIZE == 16

STOCHASTIC_DEPTH == Rat(1, 5)

IN_CHANNELS == 10

NUM_CLASSES == 2

CFG ==
    <<[repeat |-> 3, dim |-> 1 * HYPER_D, expand |-> 1, stride |-> 2, project |-> TRUE],
      [repeat |-> 4, dim |-> 2 * HYPER_D, expand |-> 1, stride |-> 2, project |-> TRUE],
      [repeat |-> 6, dim |-> 4 * HYPER_D, expand |-> 1, stride |-> 2, project |-> TRUE],
      [repeat |-> 3, dim |-> 8 * HYPER_D, expand |-> 1, stride |-> 2, project |-> TRUE]>>

\* OnsetModule.__init__, line 232: the next stage's first block takes the
\* width this stage ends with.
KeepCIn(c_in, cfg) == c_in

NextCIn(c_in, cfg) == cfg.dim

\* OnsetModule.__init__, lines 217-232: per stage, one block with the
\* stage's stride and projection from c_in to dim, then repeat - 1 blocks
\* from dim to dim with the default stride 1 and no projection.
RECURSIVE BlocksFrom(_, _)
BlocksFrom(k, c_in) ==
    IF k > Len(CFG) THEN <<>>
    ELSE LET cfg == CFG[k]
         IN  <<ResnetBlock(c_in, cfg.dim, cfg.expand, cfg.stride, cfg.project)>>
             \o [i \in 1..(cfg.repeat - 1) |->
                   ResnetBlock(cfg.dim, cfg.dim, cfg.expand, 1, FALSE)]
             \o BlocksFrom(k + 1, NextCIn(c_in, cfg))

\* self.blocks.
Blocks == BlocksFrom(1, CFG[1].dim)

\* c_in as the loop leaves it: the width of norm_head and fc.
RECURSIVE CInAfter(_, _)
CInAfter(k, c_in) ==
    IF k > Len(CFG) THEN c_in ELSE CInAfter(k + 1, NextCIn(c_in, CFG[k]))

HeadChannels == CInAfter(1, CFG[1].dim)

\* forward, lines 256-271: the per-example standardisation keeps the shape;
\* conv_stem is Conv1d(10, CFG[0].dim, kernel 9, padding 4).
Stem(x) == Conv1d(x, IN_CHANNELS, CFG[1].dim, 9, 4, 1)

\* forward, lines 273-276: the drop probability of the block at 0-based
\* position idx, with depth = 1 + len(self.blocks).
BlockDropProbZeroBased(idx, depth) ==
    RatMul(STOCHASTIC_DEPTH, Rat(idx, depth))

BlockDropProb(idx, depth) ==
    RatMul(STOCHASTIC_DEPTH, Rat(idx + 1, depth))

\* nn.AdaptiveMaxPool1d((1,)) followed by [:, :, 0]: [B, C, T] to [B, C];
\* there is nothing to pool in an empty time axis.
PoolHead(x) ==
    IF ~x.ok THEN x
    ELSE IF x.shape[3] < 1 THEN Raised("RuntimeError")
    ELSE Tensor(<<x.shape[1], x.shape[2]>>)

\* nn.Linear(c_in, c_out) on [B, c_in].
Linear(x, c_in, c_out) ==
    IF ~x.ok THEN x
    ELSE IF x.shape[Len(x.shape)] # c_in THEN Raised("RuntimeError")
    ELSE Tensor(<<x.shape[1], c_out>>)

\* forward, lines 278-282: norm_head, relu_head, pool_head, dropout, fc.
ClassifierHead(x, training) ==
    Linear(PoolHead(ReLU(BatchNorm1d(x, HeadChannels, training))),
           HeadChannels, NUM_CLASSES)

Net_stem ==
    /\ net_pc = "start"
    /\ LET x == Stem(Tensor(net_in))
       IN  /\ net_x' = x
           /\ net_pc' = IF x.ok THEN "blocks" ELSE "raised"
    /\ UNCHANGED <<net_in, net_training, net_p>>
    /\ UNCHANGED net_rest

\* One turn of the loop over self.blocks.
Net_block ==
    /\ net_pc = "blocks"
    /\ LET idx   == Len(net_p)
           depth == 1 + Len(Blocks)
           p     == BlockDropProb(idx, depth)
           r     == ResnetBlockForward(Blocks[idx + 1], net_x, <<p>>,
                                       net_training)
       IN  /\ net_p' = Append(net_p, p)
           /\ net_x' = r.out
           /\ net_pc' = IF ~r.out.ok THEN "raised"
                        ELSE IF idx + 1 = Len(Blocks) THEN "head"
                        ELSE "blocks"
    /\ UNCHANGED <<net_in, net_training>>
    /\ UNCHANGED net_rest

Net_head ==
    /\ net_pc = "head"
    /\ LET x == ClassifierHead(net_x, net_training)
       IN  /\ net_x' = x
           /\ net_pc' = IF x.ok THEN "done" ELSE "raised"
    /\ UNCHANGED <<net_in, net_training, net_p>>
    /\ UNCHANGED net_rest

\* The batches forward sees: training batches are full (drop_last with
\* batch_size OPT_BATCH_SIZE), evaluation batches may be smaller.
InitNet ==
    /\ DatasetOff /\ BlurOff /\ BlockOff /\ EvalOff
    /\ net_pc = "start"
    /\ net_training \in BOOLEAN
    /\ \E B \in (1..MaxB) \cup {OPT_BATCH_SIZE}, T \in 1..MaxSeqLen :
         /\ net_training => B = OPT_BATCH_SIZE
         /\ net_in = <<B, IN_CHANNELS, T>>
    /\ net_x = Tensor(net_in)
    /\ net_p = <<>>

NextNet == Net_stem \/ Net_block \/ Net_head

SpecNet == InitNet /\ [][NextNet]_vars

\* The time length after s stride-2 stages.
RECURSIVE HalvedTimes(_, _)
HalvedTimes(T, s) == IF s = 0 THEN T ELSE HalvedTimes(Halved(T), s - 1)

\* The number of stages begun once n blocks have run: the stages begin at
\* blocks 1, 4, 8 and 14.
StagesBegun(n) == Cardinality({k \in {1, 4, 8, 14} : k <= n})

C10_AsStated ==
    \A k \in 1..Len(net_p) :
        \/ net_p[k][1] * 5 * 16 = k * net_p[k][2]
        \/ net_p[k][1] * 5 * 16 = (k - 1) * net_p[k][2]

\* C10, amended: the block at 0-based position idx of the 16 is handed
\* 0.2 * (idx + 1) / (16 + 1); the probability rises strictly with depth
\* and lies in [0, 1], so drop_connect's assertion holds for every block.
C10_DropProb ==
    /\ \A k \in 1..Len(net_p) :
         /\ net_p[k][1] * 5 * (16 + 1) = k * net_p[k][2]
         /\ RatLe(Rat(0, 1), net_p[k]) /\ RatLe(net_p[k], Rat(1, 1))
         /\ k > 1 => RatLt(net_p[k - 1], net_p[k])
    /\ net_pc \in {"head", "done"} => Len(net_p) = 16
    /\ net_pc = "blocks" => Len(net_p) < 16
    /\ net_x.err # "AssertionError"

\* A training batch has gone through all the blocks.
C10_Witness ==
    /\ net_pc = "done"
    /\ net_training
    /\ Len(net_p) = 16
    /\ RatLt(net_p[1], net_p[16])

----------------------------------------------------------------------------
\* Evaluation passes: validation_step / validation_epoch_end and test_step /
\* test_epoch_end, driven by the trainer's evaluation loop.

\* A batch as the step sees it: the positive-class probability of each
\* example (0 or 1 here, the two sides of the 0.5 threshold) and its label.
Batches ==
    UNION {{[pred |-> ps, true |-> ts] :
              ps \in [1..n -> {0, 1}], ts \in [1..n -> {0, 1}]} :
             n \in 1..MaxBatch}

\* np.concatenate(list, axis=0).
NpConcatenate(list) == Flatten(list)

\* sklearn.metrics.roc_auc_score(y_true, y_score): a ValueError unless both
\* classes are present, else the share of (positive, negative) pairs ranked
\* right, ties counting half.
RocAuc(true, score) ==
    LET pos == {i \in 1..Len(true) : true[i] = 1}
        neg == {i \in 1..Len(true) : true[i] = 0}
        gt  == Cardinality({pr \in pos \X neg : score[pr[1]] > score[pr[2]]})
        eq  == Cardinality({pr \in pos \X neg : score[pr[1]] = score[pr[2]]})
    IN  IF pos = {} \/ neg = {} \/ Len(score) # Len(true)
        THEN [ok |-> FALSE, auc |-> <<>>]
        ELSE [ok |-> TRUE,
              auc |-> <<Rat(2 * gt + eq,
                            2 * Cardinality(pos) * Cardinality(neg))>>]

\* The except clause of the two epoch-end handlers.
CatchesNothing(exc) == FALSE

Caught(exc) == exc = "ValueError"

\* The exception that leaves the try body, "" if none: roc_auc_score's
\* ValueError, or the AttributeError of np.int in the confusion matrix call
\* on a numpy that no longer has it.
TryBodyRaises(true, pred, has_int) ==
    IF ~RocAuc(true, pred).ok THEN "ValueError"
    ELSE IF ~has_int THEN "AttributeError"
    ELSE ""

\* The accumulators as the handlers leave them (lines 335-336, 369-373).
KeepList(old) == old

ResetList(old) == <<>>

\* The trainer starts a validation or a test pass.
StartPass(kind) ==
    /\ ev_pc = "idle"
    /\ ev_passes < MaxPasses
    /\ ev_passes' = ev_passes + 1
    /\ ev_pc' = kind
    /\ outputs' = <<>>
    /\ logged' = <<>>
    /\ fed' = <<>>
    /\ UNCHANGED <<test_pred, test_true, acc_kind, np_has_int>>
    /\ UNCHANGED ev_rest

\* validation_step and test_step: one append to each accumulator; the step
\* output carries the batch number.  (An accumulator left as an array has
\* no append.)
EvalStep(kind, batch) ==
    /\ ev_pc = kind
    /\ Len(fed) < MaxSteps
    /\ fed' = Append(fed, batch)
    /\ IF acc_kind = "list"
       THEN /\ test_pred' = Append(test_pred, batch.pred)
            /\ test_true' = Append(test_true, batch.true)
            /\ outputs' = Append(outputs, Len(outputs))
            /\ ev_pc' = kind
       ELSE /\ ev_pc' = "aborted"
            /\ UNCHANGED <<test_pred, test_true, outputs>>
    /\ UNCHANGED <<acc_kind, logged, ev_passes, np_has_int>>
    /\ UNCHANGED ev_rest

validation_step(batch) == EvalStep("val", batch)

test_step(batch) == EvalStep("test", batch)

\* validation_epoch_end and test_epoch_end, whole: the averaged loss is
\* logged, the accumulators are concatenated, the AUC is logged and the
\* confusion matrix drawn inside the try, and the accumulators are reset.
\* An exception the except clause does not catch leaves the handler with
\* the accumulators holding the arrays.
EpochEnd(kind) ==
    /\ ev_pc = kind
    /\ outputs # <<>>
    /\ acc_kind = "list"
    /\ LET loss_name == IF kind = "val" THEN "val_loss" ELSE "test_loss"
           auc_name  == IF kind = "val" THEN "val_auc" ELSE "test_auc"
           pred_arr  == NpConcatenate(test_pred)
           true_arr  == NpConcatenate(test_true)
           r         == RocAuc(true_arr, pred_arr)
           exc       == TryBodyRaises(true_arr, pred_arr, np_has_int)
           log1      == Append(logged, [name  |-> loss_name,
                                        over  |-> <<outputs, <<>>>>,
                                        value |-> <<>>])
           log2      == IF r.ok
                        THEN Append(log1, [name  |-> auc_name,
                                           over  |-> <<true_arr, pred_arr>>,
                                           value |-> r.auc])
                        ELSE log1
       IN  /\ logged' = log2
           /\ IF exc = "" \/ Caught(exc)
              THEN /\ test_true' = ResetList(test_true)
                   /\ test_pred' = ResetList(test_pred)
                   /\ acc_kind' = "list"
                   /\ ev_pc' = "idle"
              ELSE /\ test_true' = true_arr
                   /\ test_pred' = pred_arr
                   /\ acc_kind' = "array"
                   /\ ev_pc' = "aborted"
    /\ UNCHANGED <<outputs, fed, ev_passes, np_has_int>>
    /\ UNCHANGED ev_rest

validation_epoch_end == EpochEnd("val")

test_epoch_end == EpochEnd("test")

\* OnsetModule.__init__ leaves both accumulators empty lists.
InitEval ==
    /\ DatasetOff /\ BlurOff /\ BlockOff /\ NetOff
    /\ ev_pc = "idle"
    /\ test_pred = <<>>
    /\ test_true = <<>>
    /\ acc_kind = "list"
    /\ outputs = <<>>
    /\ logged = <<>>
    /\ fed = <<>>
    /\ ev_passes = 0
    /\ np_has_int \in BOOLEAN

NextEval ==
    \/ \E kind \in {"val", "test"} : StartPass(kind)
    \/ \E batch \in Batches : validation_step(batch)
    \/ \E batch \in Batches : test_step(batch)
    \/ validation_epoch_end
    \/ test_epoch_end

SpecEval == InitEval /\ [][NextEval]_vars

\* The labels and the predictions the loop fed to this pass, in step order.
FedTrue == Flatten([i \in 1..Len(fed) |-> fed[i].true])

FedPred == Flatten([i \in 1..Len(fed) |-> fed[i].pred])

\* The pass holds a single class.
DegeneratePass == Cardinality({FedTrue[i] : i \in 1..Len(FedTrue)}) < 2

LoggedNames == {logged[i].name : i \in 1..Len(logged)}

\* C7: a pass whose AUC computation fails because it holds one class does
\* not abort the run: the handler returns, no AUC is logged for the epoch,
\* the averaged loss is, and the next pass can begin.
C7_DegenerateCaught ==
    (fed # <<>> /\ DegeneratePass) =>
        /\ ev_pc # "aborted"
        /\ ev_pc = "idle" =>
             /\ LoggedNames \in {{"val_loss"}, {"test_loss"}}
             /\ Len(logged) = 1
             /\ ev_passes < MaxPasses => ENABLED StartPass("val")

\* A validation pass of two batches of the same class has ended.
C7_Witness ==
    /\ ev_pc = "idle"
    /\ Len(fed) = 2
    /\ DegeneratePass
    /\ LoggedNames = {"val_loss"}

\* C9: both accumulators are empty lists whenever no pass is running (so
\* when a pass begins and after its handler returns); during a pass they
\* hold exactly the batches of the pass's own steps, one per step, in step
\* order; and the AUC of a pass is computed over exactly those batches.
C9_Accumulators ==
    /\ ev_pc = "idle" =>
         test_pred = <<>> /\ test_true = <<>> /\ acc_kind = "list"
    /\ ev_pc \in {"val", "test"} =>
         /\ acc_kind = "list"
         /\ Len(test_pred) = Len(fed)
         /\ Len(test_true) = Len(fed)
         /\ Len(outputs) = Len(fed)
         /\ \A i \in 1..Len(fed) :
              test_pred[i] = fed[i].pred /\ test_true[i] = fed[i].true
    /\ \A i \in 1..Len(logged) :
         logged[i].name \in {"val_auc", "test_auc"} =>
             logged[i].over = <<FedTrue, FedPred>>

\* A second pass has ended with its AUC logged over its two batches.
C9_Witness ==
    /\ ev_pc = "idle"
    /\ ev_passes = 2
    /\ Len(fed) = 2
    /\ \E i \in 1..Len(logged) : logged[i].name \in {"val_auc", "test_auc"}

====
